---- MODULE Spec2Model ----
(***************************************************************************)
(* The five demonstration scripts of the repository, as one state machine. *)
(* The scripts are clients of a replica set they do not implement: every   *)
(* answer of the database engine (an insert's outcome, what a secondary    *)
(* returns, the members' states) is an input chosen with \E.  A call that  *)
(* never returns is the script taking no further step (stuttering).        *)
(***************************************************************************)
EXTENDS Integers, Sequences, FiniteSets, TLC

\* ------------------------------------------------------------------ bounds
MaxTime == 8       \* the clock (whole seconds of time.time()) runs 0..MaxTime
MaxRuns == 2       \* how many scripts the operator starts, one after another

\* ------------------------------------------------------- program constants
NumBaseline == 5       \* range(1, 6)
NumLatencyRuns == 50   \* range(50)
max_wait == 60         \* step 5 of replication_experiment
PollSleep == 3         \* time.sleep(3) in step 5
NumPolls == 10         \* range(10) in eventual_consistency_experiment
ElectionWait == 8      \* time.sleep(8) after the primary was stopped

Members == <<"mongo1", "mongo2", "mongo3">>   \* MONGO_URI
MemberSet == {Members[k] : k \in 1..Len(Members)}
Concerns == <<"1", "majority", "3">>          \* for w in [1, "majority", 3]
None == "None"     \* no member
NoDoc == <<>>      \* find_one found nothing
Msg1 == <<"m", "s", "g", "1">>
Msg2 == <<"m", "s", "g", "2">>

\* ------------------------------------------------------------------ strings
\* A Python str is a sequence of one-character strings.
DigitChars == <<"0", "1", "2", "3", "4", "5", "6", "7", "8", "9">>

IsDigit(c) == \E k \in 1..10 : DigitChars[k] = c

DigitVal(c) == (CHOOSE k \in 1..10 : DigitChars[k] = c) - 1

\* the code point of the characters the ids are made of
Ord(c) ==
  IF IsDigit(c) THEN 48 + DigitVal(c)
  ELSE CASE c = "_" -> 95
         [] c = "d" -> 100
         [] c = "i" -> 105
         [] c = "u" -> 117

\* str(n) for n >= 0
RECURSIVE Str(_)
Str(n) == IF n < 10 THEN <<DigitChars[n + 1]>>
          ELSE Str(n \div 10) \o <<DigitChars[(n % 10) + 1]>>

\* format(n, "03"): zero-padded to at least three characters
RECURSIVE ZFill(_, _)
ZFill(s, width) == IF Len(s) >= width THEN s ELSE ZFill(<<"0">> \o s, width)

\* f"u{i:03}"
FmtU(n) == <<"u">> \o ZFill(Str(n), 3)

\* f"uid_{t}"
FmtUid(t) == <<"u", "i", "d", "_">> \o Str(t)

\* s.lstrip("u")
RECURSIVE LStripU(_)
LStripU(s) == IF s # <<>> /\ Head(s) = "u" THEN LStripU(Tail(s)) ELSE s

\* int(s) succeeds (on the strings the scripts build: digits only, or not)
IntParses(s) == s # <<>> /\ \A k \in 1..Len(s) : IsDigit(s[k])

\* int(s) when it succeeds
RECURSIVE IntOf(_)
IntOf(s) == IF s = <<>> THEN 0
            ELSE 10 * IntOf(SubSeq(s, 1, Len(s) - 1)) + DigitVal(s[Len(s)])

\* a < b in the order of sort=[("user_id", ...)]: by code point, a proper
\* prefix first
RECURSIVE StrLess(_, _)
StrLess(a, b) ==
  IF b = <<>> THEN FALSE
  ELSE IF a = <<>> THEN TRUE
  ELSE IF Head(a) # Head(b) THEN Ord(Head(a)) < Ord(Head(b))
  ELSE StrLess(Tail(a), Tail(b))

\* find_one(sort=[("user_id", -1)]): the document whose user_id sorts last
LastDoc(coll) ==
  IF coll = {} THEN NoDoc
  ELSE CHOOSE d \in coll : \A e \in coll : e = d \/ StrLess(e, d)

\* ------------------------------------------------------------------- state
VARIABLES
  script,       \* the script that is running, or "none"
  pc,           \* the step it is at
  runs,         \* scripts started so far
  now,          \* int(time.time())
  userProfile,  \* the user_id of every document of userDB.userProfile
  causalTest,   \* the _id of every document of userDB.causalTest
  i,            \* the loop index of the running loop
  w,            \* step 3 of replication_experiment: index into Concerns
  user_id,      \* the id the script last built
  old_primary,  \* replication_experiment: client.primary[0]
  primary,      \* replication_experiment: the PRIMARY step 5 found
  waited,       \* replication_experiment: time.time() - start_time
  result,       \* the documents (their ids) the script last read
  existing_count,  \* step 2: count_documents({}) before the baseline loop
  failed        \* step 2: rounds of the baseline loop that took an except branch

vars == <<script, pc, runs, now, userProfile, causalTest, i, w,
          user_id, old_primary, primary, waited, result, existing_count,
          failed>>

Scripts == {"setup_baseline", "replication", "strong", "eventual", "causal"}

FirstStep(s) ==
  CASE s = "setup_baseline" -> "count"
    [] s = "replication" -> "count"
    [] s = "strong" -> "insert"
    [] s = "eventual" -> "insert"
    [] s = "causal" -> "writeA"

Init ==
  /\ script = "none"
  /\ pc = "idle"
  /\ runs = 0
  /\ now = 0
  /\ userProfile = {}
  /\ causalTest = {}
  /\ i = 0
  /\ w = 0
  /\ user_id = <<>>
  /\ old_primary = None
  /\ primary = None
  /\ waited = 0
  /\ result = {}
  /\ existing_count = 0
  /\ failed = 0

\* the operator starts a script (its step 1 connects) once the one before
\* ended: ran to its last line, or died of an uncaught exception
Start ==
  /\ pc \in {"idle", "done", "crashed"}
  /\ runs < MaxRuns
  /\ \E s \in Scripts :
       /\ script' = s
       /\ pc' = FirstStep(s)
  /\ runs' = runs + 1
  /\ i' = 0 /\ w' = 0 /\ user_id' = <<>> /\ old_primary' = None
  /\ primary' = None /\ waited' = 0 /\ result' = {}
  /\ existing_count' = 0 /\ failed' = 0
  /\ UNCHANGED <<now, userProfile, causalTest>>

\* coll.insert_one({"_id": id, ...}): the outcomes the engine can give.
\* "dup" is DuplicateKeyError, "err" any other PyMongoError.
InsertOutcomes(coll, id) == IF id \in coll THEN {"dup", "err"} ELSE {"ok", "err"}

\* ---------------------------------------------------------- setup_baseline
\* SetupClear without its delete_many({})
SetupClear_NoDelete ==
  /\ script = "setup_baseline" /\ pc = "count"
  /\ \E ok \in BOOLEAN :
       IF ok
       THEN /\ existing_count' = Cardinality(userProfile)
            /\ userProfile' = userProfile
            /\ pc' = "insert"
            /\ i' = 1
       ELSE /\ pc' = "crashed"
            /\ UNCHANGED <<userProfile, i, existing_count>>
  /\ UNCHANGED <<script, runs, failed, now, causalTest, w, user_id,
                 old_primary, primary, waited, result>>

\* count_documents({}), and delete_many({}) when the collection is not empty
SetupClear ==
  /\ script = "setup_baseline" /\ pc = "count"
  /\ \E ok \in BOOLEAN :
       IF ok
       THEN /\ existing_count' = Cardinality(userProfile)
            /\ userProfile' = {}
            /\ pc' = "insert"
            /\ i' = 1
       ELSE /\ pc' = "crashed"
            /\ UNCHANGED <<userProfile, i, existing_count>>
  /\ UNCHANGED <<script, runs, failed, now, causalTest, w, user_id,
                 old_primary, primary, waited, result>>

\* one round of: for i in range(1, 6): insert_one u{i:03}, every exception
\* caught; after the last round the closing find()
SetupInsert ==
  /\ script = "setup_baseline" /\ pc = "insert"
  /\ i <= NumBaseline
  /\ user_id' = FmtU(i)
  /\ \E out \in InsertOutcomes(userProfile, FmtU(i)) :
       /\ userProfile' = IF out = "ok" THEN userProfile \cup {FmtU(i)}
                         ELSE userProfile
       /\ failed' = IF out = "ok" THEN failed ELSE failed + 1
  /\ i' = i + 1
  /\ pc' = IF i = NumBaseline THEN "find" ELSE "insert"
  /\ UNCHANGED <<script, runs, existing_count, now, causalTest, w, old_primary,
                 primary, waited, result>>

SetupFind ==
  /\ script = "setup_baseline" /\ pc = "find"
  /\ \E ok \in BOOLEAN : pc' = IF ok THEN "done" ELSE "crashed"
  /\ UNCHANGED <<script, runs, existing_count, failed, now, userProfile, causalTest, i,
                 w, user_id, old_primary, primary, waited, result>>

\* --------------------------------------------------- replication_experiment
\* step 2: count_documents({}); the baseline is inserted only into an empty
\* collection
ReplCount ==
  /\ script = "replication" /\ pc = "count"
  /\ \E ok \in BOOLEAN :
       IF ~ok THEN pc' = "crashed" /\ i' = i /\ existing_count' = existing_count
       ELSE /\ existing_count' = Cardinality(userProfile)
            /\ IF Cardinality(userProfile) = 0 THEN pc' = "insert" /\ i' = 1
               ELSE pc' = "final_count" /\ i' = i
  /\ UNCHANGED <<script, runs, failed, now, userProfile, causalTest, w,
                 user_id, old_primary, primary, waited, result>>

\* step 2: one round of the baseline loop, every exception caught
ReplInsert ==
  /\ script = "replication" /\ pc = "insert"
  /\ i <= NumBaseline
  /\ user_id' = FmtU(i)
  /\ \E out \in InsertOutcomes(userProfile, FmtU(i)) :
       /\ userProfile' = IF out = "ok" THEN userProfile \cup {FmtU(i)}
                         ELSE userProfile
       /\ failed' = IF out = "ok" THEN failed ELSE failed + 1
  /\ i' = i + 1
  /\ pc' = IF i = NumBaseline THEN "final_count" ELSE "insert"
  /\ UNCHANGED <<script, runs, existing_count, now, causalTest, w, old_primary,
                 primary, waited, result>>

\* step 2: the closing count_documents({})
ReplFinalCount ==
  /\ script = "replication" /\ pc = "final_count"
  /\ \E ok \in BOOLEAN :
       IF ok THEN pc' = "latency" /\ w' = 1 /\ i' = i
       ELSE pc' = "crashed" /\ w' = w /\ i' = i
  /\ UNCHANGED <<script, runs, existing_count, failed, now, userProfile, causalTest,
                 user_id, old_primary, primary, waited, result>>

\* step 3: the range(50) loop of insert_one into latencyTest under
\* WriteConcern(w=Concerns[w]), no wtimeout and no try around it: n inserts
\* are acknowledged before one raises, or all are (the loop has no index)
ReplLatency ==
  /\ script = "replication" /\ pc = "latency"
  /\ w <= Len(Concerns)
  /\ \E n \in 0..NumLatencyRuns :
       IF n < NumLatencyRuns THEN pc' = "crashed" /\ w' = w
       ELSE IF w < Len(Concerns) THEN pc' = pc /\ w' = w + 1
       ELSE pc' = "stop_primary" /\ w' = w
  /\ UNCHANGED <<script, runs, existing_count, failed, now, userProfile,
                 causalTest, i, user_id, old_primary, primary, waited, result>>

\* step 4: old_primary = client.primary[0] (client.primary is None when the
\* client knows no primary), then the wait for the operator
ReplStopPrimary ==
  /\ script = "replication" /\ pc = "stop_primary"
  /\ \E p \in MemberSet \cup {None} :
       IF p = None THEN pc' = "crashed" /\ old_primary' = old_primary
       ELSE pc' = "poll" /\ old_primary' = p
  /\ waited' = 0
  /\ primary' = None
  /\ UNCHANGED <<script, runs, existing_count, failed, now, userProfile, causalTest, i, w,
                 user_id, result>>

\* next((m["name"] for m in members if m["stateStr"] == "PRIMARY"), None)
RECURSIVE FirstPrimary(_, _)
FirstPrimary(status, k) ==
  IF k > Len(Members) THEN None
  ELSE IF status[Members[k]] = "PRIMARY" THEN Members[k]
  ELSE FirstPrimary(status, k + 1)

\* m["stateStr"]: the loop tells PRIMARY from anything else
StateStrs == {"PRIMARY", "SECONDARY"}

\* step 5: one round of the loop; replSetGetStatus answers with the members'
\* states or raises PyMongoError
ReplPoll ==
  /\ script = "replication" /\ pc = "poll"
  /\ primary = None /\ waited < max_wait
  /\ \/ \E status \in [MemberSet -> StateStrs] :
          /\ primary' = FirstPrimary(status, 1)
          /\ waited' = IF FirstPrimary(status, 1) = None
                       THEN waited + PollSleep ELSE waited
       \/ /\ primary' = None
          /\ waited' = waited + PollSleep
  /\ pc' = IF primary' # None \/ waited' >= max_wait THEN "insert_after"
           ELSE "poll"
  /\ UNCHANGED <<script, runs, existing_count, failed, now, userProfile, causalTest, i, w,
                 user_id, old_primary, result>>

\* step 6: the id after the last one, inserted under try/except Exception;
\* find_one and int() are outside the try (the elapsed time of step 5 is
\* not read again)
ReplInsertAfter ==
  /\ script = "replication" /\ pc = "insert_after"
  /\ \E ok \in BOOLEAN :
       LET last_doc == LastDoc(userProfile)
           parses == last_doc = NoDoc \/ IntParses(LStripU(last_doc))
           next_num == IF last_doc = NoDoc THEN 1
                       ELSE IntOf(LStripU(last_doc)) + 1
       IN IF ~ok \/ ~parses
          THEN pc' = "crashed" /\ UNCHANGED <<userProfile, user_id, result>>
          ELSE /\ user_id' = FmtU(next_num)
               /\ result' = {last_doc} \ {NoDoc}
               /\ \E out \in InsertOutcomes(userProfile, FmtU(next_num)) :
                    userProfile' = IF out = "ok"
                                   THEN userProfile \cup {FmtU(next_num)}
                                   ELSE userProfile
               /\ \E ok2 \in BOOLEAN :
                    pc' = IF ok2 THEN "restart" ELSE "crashed"
  /\ waited' = 0
  /\ UNCHANGED <<script, runs, existing_count, failed, now, causalTest, i, w, old_primary,
                 primary>>

\* steps 7 and 8: the wait for the old primary, isMaster (which carries no
\* 'primary' when there is none) and the two closing reads
ReplVerify ==
  /\ script = "replication" /\ pc = "restart"
  /\ \E ok \in BOOLEAN : pc' = IF ok THEN "done" ELSE "crashed"
  /\ UNCHANGED <<script, runs, existing_count, failed, now, userProfile, causalTest, i, w,
                 user_id, old_primary, primary, waited, result>>

\* ------------------------------------------- strong_consistency_experiment
\* A clock read gives a second not before the last one read (plus the sleeps
\* of the script since); now is the last second read.

\* step 2: insert uid_<int(time.time())> under w="majority", no try around it
StrongInsert ==
  /\ script = "strong" /\ pc = "insert"
  /\ \E t \in now..MaxTime :
       /\ now' = t
       /\ user_id' = FmtUid(t)
       /\ \E out \in InsertOutcomes(userProfile, FmtUid(t)) :
            IF out = "ok"
            THEN userProfile' = userProfile \cup {FmtUid(t)} /\ pc' = "read"
            ELSE userProfile' = userProfile /\ pc' = "crashed"
  /\ UNCHANGED <<script, runs, existing_count, failed, causalTest, i, w, old_primary, primary, waited,
                 result>>

\* find_one({"_id": id}) with read preference SECONDARY: the engine's answer
\* is the document or None
SecondaryFind(coll, id) == {{}} \cup (IF id \in coll THEN {{id}} ELSE {})

\* step 2: the read from a secondary under readConcern "majority"
StrongRead ==
  /\ script = "strong" /\ pc = "read"
  /\ \/ \E r \in SecondaryFind(userProfile, user_id) :
          result' = r /\ pc' = "failover"
     \/ result' = result /\ pc' = "crashed"
  /\ UNCHANGED <<script, runs, existing_count, failed, now, userProfile, causalTest, i, w, user_id,
                 old_primary, primary, waited>>

\* steps 3 and 4: after the wait, insert uid_<int(time.time()) + 1> under
\* try/except PyMongoError
StrongFailoverWrite ==
  /\ script = "strong" /\ pc = "failover"
  /\ \E t \in (now + ElectionWait)..MaxTime :
       /\ now' = t
       /\ user_id' = FmtUid(t + 1)
       /\ \E out \in InsertOutcomes(userProfile, FmtUid(t + 1)) :
            userProfile' = IF out = "ok" THEN userProfile \cup {FmtUid(t + 1)}
                           ELSE userProfile
  /\ pc' = "recover"
  /\ UNCHANGED <<script, runs, existing_count, failed, causalTest, i, w, old_primary, primary, waited,
                 result>>

\* step 5: the closing find() on the primary
StrongRecover ==
  /\ script = "strong" /\ pc = "recover"
  /\ \/ result' = userProfile /\ pc' = "done"
     \/ result' = result /\ pc' = "crashed"
  /\ UNCHANGED <<script, runs, existing_count, failed, now, userProfile, causalTest, i, w, user_id,
                 old_primary, primary, waited>>

\* ----------------------------------------- eventual_consistency_experiment
\* step 2: insert uid_<int(time.time())> under w=1, no try around it
EventualInsert ==
  /\ script = "eventual" /\ pc = "insert"
  /\ \E t \in now..MaxTime :
       /\ now' = t
       /\ user_id' = FmtUid(t)
       /\ \E out \in InsertOutcomes(userProfile, FmtUid(t)) :
            IF out = "ok"
            THEN userProfile' = userProfile \cup {FmtUid(t)} /\ pc' = "read"
            ELSE userProfile' = userProfile /\ pc' = "crashed"
  /\ UNCHANGED <<script, runs, existing_count, failed, causalTest, i, w, old_primary, primary, waited,
                 result>>

\* step 2: the first read from a secondary under readConcern "local"
EventualRead ==
  /\ script = "eventual" /\ pc = "read"
  /\ \/ \E r \in SecondaryFind(userProfile, user_id) :
          result' = r /\ pc' = "poll"
     \/ result' = result /\ pc' = "crashed"
  /\ i' = 0
  /\ UNCHANGED <<script, runs, existing_count, failed, now, userProfile, causalTest, w, user_id,
                 old_primary, primary, waited>>

\* one round of: for i in range(10): read from a secondary, break when the
\* document is there, else sleep a second
EventualPoll ==
  /\ script = "eventual" /\ pc = "poll"
  /\ i < NumPolls
  /\ \/ \E r \in SecondaryFind(userProfile, user_id) :
          /\ result' = r
          /\ IF r # {} THEN pc' = "done" /\ i' = i
             ELSE i' = i + 1 /\ pc' = IF i + 1 < NumPolls THEN "poll" ELSE "done"
     \/ result' = result /\ pc' = "crashed" /\ i' = i
  /\ UNCHANGED <<script, runs, existing_count, failed, now, userProfile, causalTest, w, user_id,
                 old_primary, primary, waited>>

\* ------------------------------------------------------- consistency_causal
\* step 2: in a causally consistent session, a transaction that inserts msg1
CausalWriteA ==
  /\ script = "causal" /\ pc = "writeA"
  /\ user_id' = Msg1
  /\ \E out \in InsertOutcomes(causalTest, Msg1) :
       IF out = "ok"
       THEN causalTest' = causalTest \cup {Msg1} /\ pc' = "readA"
       ELSE causalTest' = causalTest /\ pc' = "crashed"
  /\ UNCHANGED <<script, runs, existing_count, failed, now, userProfile, i, w, old_primary, primary,
                 waited, result>>

\* find_one({"_id": id}, session=session): the engine's answer
SessionFind(coll, id) == {{}} \cup (IF id \in coll THEN {{id}} ELSE {})

\* step 2: find_one msg1 in the session; msg2 is written only if it was found
CausalReadA ==
  /\ script = "causal" /\ pc = "readA"
  /\ \/ \E r \in SessionFind(causalTest, Msg1) :
          result' = r /\ pc' = IF r # {} THEN "writeB" ELSE "readAll"
     \/ result' = result /\ pc' = "crashed"
  /\ UNCHANGED <<script, runs, existing_count, failed, now, userProfile, causalTest, i, w, user_id,
                 old_primary, primary, waited>>

\* step 2: insert msg2 in the session, no try around it
CausalWriteB ==
  /\ script = "causal" /\ pc = "writeB"
  /\ user_id' = Msg2
  /\ \E out \in InsertOutcomes(causalTest, Msg2) :
       IF out = "ok"
       THEN causalTest' = causalTest \cup {Msg2} /\ pc' = "readAll"
       ELSE causalTest' = causalTest /\ pc' = "crashed"
  /\ UNCHANGED <<script, runs, existing_count, failed, now, userProfile, i, w, old_primary, primary,
                 waited, result>>

\* step 3: list(coll.find({}, session=session)): the engine's answer
CausalReadAll ==
  /\ script = "causal" /\ pc = "readAll"
  /\ \/ \E r \in SUBSET causalTest : result' = r /\ pc' = "done"
     \/ result' = result /\ pc' = "crashed"
  /\ UNCHANGED <<script, runs, existing_count, failed, now, userProfile, causalTest, i, w, user_id,
                 old_primary, primary, waited>>

Next ==
  \/ StrongInsert
  \/ StrongRead
  \/ StrongFailoverWrite
  \/ StrongRecover
  \/ EventualInsert
  \/ EventualRead
  \/ EventualPoll
  \/ CausalWriteA
  \/ CausalReadA
  \/ CausalWriteB
  \/ CausalReadAll
  \/ ReplCount
  \/ ReplInsert
  \/ ReplFinalCount
  \/ ReplLatency
  \/ ReplStopPrimary
  \/ ReplPoll
  \/ ReplInsertAfter
  \/ ReplVerify
  \/ Start
  \/ SetupClear
  \/ SetupInsert
  \/ SetupFind

\* ------------------------------------------------------------------ claims
\* the ids of the baseline documents u001..u00n
Baseline(n) == {FmtU(k) : k \in 1..n}

\* step 6 is about to run
AtStep6 == script = "replication" /\ pc = "insert_after"

(* C13: whatever the scripts left in userProfile, step 6 of                *)
(* replication_experiment completes: when the engine answers its calls, it *)
(* goes on to step 7 having inserted a document whose id was not in the    *)
(* collection.                                                             *)
C13_Step6Completes ==
  AtStep6 =>
    ENABLED (/\ ReplInsertAfter
             /\ pc' = "restart"
             /\ user_id' \notin userProfile
             /\ userProfile' = userProfile \cup {user_id'})

\* setup_baseline ran to its last line
SetupDone == script = "setup_baseline" /\ pc = "done"

\* step 2 of replication_experiment: the baseline loop runs only on a
\* collection counted empty, and a collection counted non-empty reaches the
\* end of the step as it was
ReplStep2Conditional ==
  /\ [](script = "replication" /\ pc = "insert"
          => existing_count = 0 /\ userProfile \subseteq Baseline(i - 1))
  /\ [][script = "replication" /\ pc = "count" /\ userProfile # {}
          => userProfile' = userProfile /\ pc' \in {"final_count", "crashed"}]_vars

(* C14 as stated: whatever userProfile held, after setup_baseline ran to   *)
(* its last line it holds exactly u001..u005; step 2 of                    *)
(* replication_experiment inserts the baseline only into an empty          *)
(* collection and otherwise leaves it as it was.                           *)
C14_ExactlyBaseline ==
  /\ [](SetupDone => userProfile = Baseline(NumBaseline))
  /\ ReplStep2Conditional

(* C14 amended: after setup_baseline ran to its last line userProfile      *)
(* holds no document but u001..u005, and all five of them when no          *)
(* insert_one raised (a raising insert is caught and skipped); step 2 of   *)
(* replication_experiment as above.                                        *)
C14_BaselineReset ==
  /\ [](SetupDone =>
          /\ userProfile \subseteq Baseline(NumBaseline)
          /\ (failed = 0 => userProfile = Baseline(NumBaseline)))
  /\ ReplStep2Conditional

\* C14's case: setup_baseline found documents, cleared them and every insert
\* was acknowledged
C14_Witness ==
  /\ SetupDone
  /\ existing_count > 0
  /\ failed = 0
  /\ userProfile = Baseline(NumBaseline)

Spec == Init /\ [][Next]_vars
====
